---- MODULE Spec2Model ----
(***************************************************************************)
(* A model of src/main.py: the command-line tool that extracts every audio *)
(* track of a media file into its own WAV file by calling ffprobe once and *)
(* ffmpeg once per track.                                                  *)
(*                                                                         *)
(* A string is a sequence of one-character strings.  A call of             *)
(* subprocess.run is two steps, the spawn and the return, so that the      *)
(* processes outstanding at any moment are part of the state.              *)
(***************************************************************************)
EXTENDS Integers, Sequences, FiniteSets, TLC

\* Largest number of audio streams the probe reports.
MaxTracks == 3

\* The value get_audio_stream_count returns on every error.
Failure == -1

\* num_audio_tracks, successful_extractions and i before their assignment.
Unset == -2

\* output_dir when the caller gave none.
None == <<"None">>

VARIABLES
    pc,                     \* position in extract_audio_tracks
    mp4_filepath,           \* argument: the input path
    isfile,                 \* os.path.isfile(mp4_filepath)
    output_dir,             \* argument, reassigned at line 70 when None
    fs_outdir,              \* what the file system holds at the output directory
    num_audio_tracks,
    base_filename,
    i,                      \* loop variable of line 83
    successful_extractions,
    attempts,               \* the ffmpeg invocations of the run, in order
    outstanding,            \* external processes spawned and not yet waited for
    probe_calls,            \* number of ffprobe invocations
    probe_result,           \* how the subprocess.run of line 25 ended
    makedirs_calls,         \* outcomes of the os.makedirs calls, in order
    messages                \* what the run printed, in order

vars == <<pc, mp4_filepath, isfile, output_dir, fs_outdir, num_audio_tracks,
          base_filename, i, successful_extractions, attempts, outstanding,
          probe_calls, probe_result, makedirs_calls, messages>>

----------------------------------------------------------------------------
(* Strings and paths *)

Sep == "/"
ExtSep == "."

Str_track == <<"_", "t", "r", "a", "c", "k", "_">>
Str_wav == <<".", "w", "a", "v">>

\* Working directory of the process, used by os.path.abspath.
Cwd == <<"/", "w">>

\* Index of the last occurrence of c in s, 0 when there is none (str.rfind + 1).
RECURSIVE rfind(_, _, _)
rfind(s, c, k) ==
    IF k = 0 THEN 0
    ELSE IF s[k] = c THEN k
    ELSE rfind(s, c, k - 1)

\* os.path.basename: what follows the last separator.
basename(p) ==
    SubSeq(p, rfind(p, Sep, Len(p)) + 1, Len(p))

\* os.path.dirname: what precedes the last separator, trailing separators
\* stripped unless the head is the root.
dirname(p) ==
    LET k == rfind(p, Sep, Len(p))
        head == SubSeq(p, 1, k)
    IN  IF head # <<>> /\ \E j \in 1..Len(head) : head[j] # Sep
        THEN SubSeq(head, 1, CHOOSE j \in 1..Len(head) :
                                /\ head[j] # Sep
                                /\ \A m \in (j+1)..Len(head) : head[m] = Sep)
        ELSE head

\* os.path.splitext(p)[0]: the extension starts at the last dot, unless that
\* dot is not after the last separator or only dots precede it in the name.
splitext_root(p) ==
    LET sepIndex == rfind(p, Sep, Len(p))
        dotIndex == rfind(p, ExtSep, Len(p))
    IN  IF /\ dotIndex > sepIndex
           /\ \E k \in (sepIndex + 1)..(dotIndex - 1) : p[k] # ExtSep
        THEN SubSeq(p, 1, dotIndex - 1)
        ELSE p

\* os.path.join of two components.
join(a, b) ==
    IF b # <<>> /\ b[1] = Sep THEN b
    ELSE IF a = <<>> \/ a[Len(a)] = Sep THEN a \o b
    ELSE a \o <<Sep>> \o b

\* os.path.abspath for a path in normal form (no ".", "..", doubled separator).
abspath(p) ==
    IF p # <<>> /\ p[1] = Sep THEN p ELSE join(Cwd, p)

Digit(d) ==
    CASE d = 0 -> "0" [] d = 1 -> "1" [] d = 2 -> "2" [] d = 3 -> "3"
      [] d = 4 -> "4" [] d = 5 -> "5" [] d = 6 -> "6" [] d = 7 -> "7"
      [] d = 8 -> "8" [] d = 9 -> "9"

\* str(n) for n >= 0, as the f-strings of lines 84 and 94 format it.
RECURSIVE str(_)
str(n) ==
    IF n < 10 THEN <<Digit(n)>>
    ELSE str(n \div 10) \o <<Digit(n % 10)>>

\* Line 84.
output_filename(base, k) ==
    base \o Str_track \o str(k) \o Str_wav

\* Line 85.
output_filepath(dir, base, k) ==
    join(dir, output_filename(base, k))

----------------------------------------------------------------------------
(* The inputs *)

InputPaths ==
    { <<"m", ".", "m", "p", "4">>,
      <<"d", "/", "a", ".", "b", ".", "m">>,
      <<"/", "v", ".", "x", "/", ".", "h">> }

OutputDirs ==
    { <<"o">>, <<"/", "t", "/">> }

\* What is at a path: nothing, a directory, or a regular file.
FsKinds == {"absent", "dir", "file"}

\* os.path.exists.
exists(kind) == kind # "absent"

----------------------------------------------------------------------------
(* The probe: get_audio_stream_count, lines 6-41 *)

\* What ffprobe wrote to stdout, as json.loads sees it: not JSON, a JSON
\* value that is no object, an object without "streams", an object whose
\* "streams" is null, an object whose "streams" is a list of n entries.
Stdouts ==
    { <<"invalid", 0>>, <<"array", 0>>, <<"nostreams", 0>>, <<"null", 0>> }
    \cup { <<"streams", n>> : n \in 0..MaxTracks }

\* The outcome of subprocess.run(..., check=True): the exception it raises
\* ("none" when it returns), whether the captured stderr is non-empty, and
\* the captured stdout.
RunOutcome(exc, err, out) == [exc |-> exc, stderr |-> err, stdout |-> out]

\* No call yet.
NotRun == RunOutcome("not_run", FALSE, <<"invalid", 0>>)

\* Outcomes of a call that spawns no process.
NoSpawnOutcomes ==
    { RunOutcome(e, FALSE, <<"invalid", 0>>) : e \in {"FileNotFoundError", "Exception"} }

\* Outcomes of ffprobe once spawned.
ProbeReturns ==
    { RunOutcome("none", FALSE, o) : o \in Stdouts }
    \cup { RunOutcome("CalledProcessError", b, <<"invalid", 0>>) : b \in BOOLEAN }
    \cup { RunOutcome("Exception", FALSE, <<"invalid", 0>>) }

\* The exception raised inside the try block of lines 24-27, "none" if none.
ProbeException(r) ==
    IF r.exc # "none" THEN r.exc
    ELSE CASE r.stdout[1] = "invalid"   -> "JSONDecodeError"
           [] r.stdout[1] = "array"     -> "Exception"     \* no .get
           [] r.stdout[1] = "null"      -> "Exception"     \* len(None)
           [] r.stdout[1] = "nostreams" -> "none"
           [] r.stdout[1] = "streams"   -> "none"

\* Line 27: len(streams_info.get('streams', [])).
StreamsLen(out) ==
    IF out[1] = "streams" THEN out[2] ELSE 0

\* Output that is not JSON counted as no stream instead of a failure.
get_audio_stream_count_lenient(r) ==
    IF ProbeException(r) \in {"none", "JSONDecodeError"}
    THEN StreamsLen(r.stdout)
    ELSE Failure

get_audio_stream_count(r) ==
    IF ProbeException(r) = "none" THEN StreamsLen(r.stdout) ELSE Failure

\* What get_audio_stream_count prints.
ProbeMessages(r) ==
    CASE ProbeException(r) = "none" -> <<>>
      [] ProbeException(r) = "FileNotFoundError" -> << <<"ffprobe_not_found">> >>
      [] ProbeException(r) = "CalledProcessError" ->
            << <<"ffprobe_failed">> >>
            \o (IF r.stderr THEN << <<"ffprobe_stderr">> >> ELSE <<>>)
      [] ProbeException(r) = "JSONDecodeError" -> << <<"ffprobe_bad_json">> >>
      [] ProbeException(r) = "Exception" -> << <<"ffprobe_unexpected">> >>

----------------------------------------------------------------------------
Init ==
    /\ pc = "start"
    /\ mp4_filepath \in InputPaths
    /\ isfile \in BOOLEAN
    /\ output_dir \in {None} \cup OutputDirs
    /\ fs_outdir \in FsKinds
    \* the directory of an existing input file exists
    /\ (output_dir = None /\ isfile) => fs_outdir = "dir"
    /\ num_audio_tracks = Unset
    /\ base_filename = <<>>
    /\ i = Unset
    /\ successful_extractions = Unset
    /\ attempts = <<>>
    /\ outstanding = {}
    /\ probe_calls = 0
    /\ probe_result = NotRun
    /\ makedirs_calls = <<>>
    /\ messages = <<>>

\* The check of line 52 left out.
InputMissing_never(f) == FALSE

\* Line 52.
InputMissing(f) == ~f

\* The process started and not waited for.
Reaped_not(procs, p) == procs

\* subprocess.run waits for the process it started: p is outstanding no more.
Reaped(procs, p) == procs \ {p}

\* Lines 52-56.
CheckInput ==
    /\ pc = "start"
    /\ IF InputMissing(isfile)
       THEN /\ messages' = Append(messages, <<"input_not_found">>)
            /\ pc' = "return_54"
       ELSE /\ messages' = Append(messages, <<"processing">>)
            /\ pc' = "probe"
    /\ UNCHANGED <<mp4_filepath, isfile, output_dir, fs_outdir, num_audio_tracks,
                   base_filename, i, successful_extractions, attempts,
                   outstanding, probe_calls, probe_result, makedirs_calls>>

\* Line 57 calling line 25: ffprobe is started, or cannot be.
ProbeSpawn ==
    /\ pc = "probe"
    /\ probe_calls' = probe_calls + 1
    /\ \/ \E r \in NoSpawnOutcomes :
            /\ probe_result' = r
            /\ num_audio_tracks' = get_audio_stream_count(r)
            /\ messages' = messages \o ProbeMessages(r)
            /\ pc' = "probed"
            /\ UNCHANGED outstanding
       \/ /\ outstanding' = outstanding \cup {<<"ffprobe", 0>>}
          /\ pc' = "probe_wait"
          /\ UNCHANGED <<num_audio_tracks, messages, probe_result>>
    /\ UNCHANGED <<mp4_filepath, isfile, output_dir, fs_outdir, base_filename, i,
                   successful_extractions, attempts, makedirs_calls>>

\* Lines 25-41 and 57: ffprobe has exited and its count is returned.
ProbeReturn ==
    /\ pc = "probe_wait"
    /\ \E r \in ProbeReturns :
            /\ probe_result' = r
            /\ num_audio_tracks' = get_audio_stream_count(r)
            /\ messages' = messages \o ProbeMessages(r)
    /\ outstanding' = Reaped(outstanding, <<"ffprobe", 0>>)
    /\ pc' = "probed"
    /\ UNCHANGED <<mp4_filepath, isfile, output_dir, fs_outdir, base_filename, i,
                   successful_extractions, attempts, probe_calls, makedirs_calls>>

\* The test of line 59 written for zero only.
NothingToExtract_zero(n) == n = 0

\* Line 59: the test that ends the run when there is nothing to extract.
NothingToExtract(n) == n <= 0

\* Lines 59-67.
CheckCount ==
    /\ pc = "probed"
    /\ IF NothingToExtract(num_audio_tracks)
       THEN /\ messages' = IF num_audio_tracks = 0
                           THEN Append(messages, <<"no_tracks">>)
                           ELSE messages
            /\ pc' = "return_63"
            /\ UNCHANGED base_filename
       ELSE /\ messages' = Append(messages, <<"tracks_found", num_audio_tracks>>)
            /\ base_filename' = splitext_root(basename(mp4_filepath))
            /\ pc' = "resolve_dir"
    /\ UNCHANGED <<mp4_filepath, isfile, output_dir, fs_outdir, num_audio_tracks, i,
                   successful_extractions, attempts, outstanding, probe_calls,
                   probe_result, makedirs_calls>>

\* The return of line 79 left out.
AfterMakedirs_ignore(ok) == "loop"

\* Where the run goes after os.makedirs: on to the loop, or out at line 79.
AfterMakedirs(ok) == IF ok THEN "loop" ELSE "return_79"

\* Lines 69-82: the output directory is resolved, created when it was given
\* and does not exist, and the loop's counter is set.
ResolveDir ==
    /\ pc = "resolve_dir"
    /\ IF output_dir = None
       THEN /\ output_dir' = dirname(abspath(mp4_filepath))
            /\ pc' = "loop"
            /\ UNCHANGED <<fs_outdir, makedirs_calls, messages>>
       ELSE IF exists(fs_outdir)
       THEN /\ pc' = "loop"
            /\ UNCHANGED <<output_dir, fs_outdir, makedirs_calls, messages>>
       ELSE \E ok \in BOOLEAN :
            /\ makedirs_calls' = Append(makedirs_calls, ok)
            /\ fs_outdir' = IF ok THEN "dir" ELSE fs_outdir
            /\ messages' = Append(messages, IF ok THEN <<"dir_created">>
                                                  ELSE <<"dir_failed">>)
            /\ pc' = AfterMakedirs(ok)
            /\ UNCHANGED output_dir
    /\ successful_extractions' = IF pc' = "loop" THEN 0 ELSE successful_extractions
    /\ i' = IF pc' = "loop" THEN 0 ELSE i
    /\ UNCHANGED <<mp4_filepath, isfile, num_audio_tracks, base_filename, attempts,
                   outstanding, probe_calls, probe_result>>

----------------------------------------------------------------------------
(* The extraction loop, lines 83-118 *)

\* Outcomes of ffmpeg once spawned.  It exits with status zero only when it
\* can write into the output directory.
TranscodeReturns ==
    (IF fs_outdir = "dir" THEN { RunOutcome("none", FALSE, <<"invalid", 0>>) } ELSE {})
    \cup { RunOutcome("CalledProcessError", b, <<"invalid", 0>>) : b \in BOOLEAN }
    \cup { RunOutcome("Exception", FALSE, <<"invalid", 0>>) }

\* Line 94: the stream selector given to -map.
map_arg(k) == <<"0", ":", "a", ":">> \o str(k)

\* One ffmpeg invocation: the index, the -map argument and the output path
\* of its command (lines 90-97), and how subprocess.run ended ("running"
\* until it has).
Attempt(k, res) ==
    [index |-> k,
     map |-> map_arg(k),
     path |-> output_filepath(output_dir, base_filename, k),
     result |-> res]

\* The increment of line 104 moved out of the try block.
CountAfter_always(r, s) == s + 1

\* Lines 103-118: the counter after an attempt that ended as r.
CountAfter(r, s) ==
    IF r.exc = "none" THEN s + 1 ELSE s

\* Every failure ends the run, as the missing binary does.
PcAfter_abortAll(r) ==
    IF r.exc # "none" THEN "return_107" ELSE "loop"

\* The return of line 107 left out.
PcAfter_neverAbort(r) == "loop"

\* Lines 103-118: where the run goes after an attempt that ended as r.
PcAfter(r) ==
    IF r.exc = "FileNotFoundError" THEN "return_107" ELSE "loop"

\* Lines 103-118: what is printed after the attempt at index k ended as r.
TrackMessages(r, k) ==
    CASE r.exc = "none" -> << <<"track_done", k>> >>
      [] r.exc = "FileNotFoundError" -> << <<"ffmpeg_not_found">> >>
      [] r.exc = "CalledProcessError" ->
            << <<"track_failed", k>>, <<"command", k>>,
               IF r.stderr THEN <<"ffmpeg_stderr">> ELSE <<"error_detail">> >>
      [] r.exc = "Exception" -> << <<"track_unexpected", k>>, <<"command", k>> >>

\* Lines 103-118 for the attempt at index i, already the last of attempts.
Handle(r, msgs, atts) ==
    /\ attempts' = [atts EXCEPT ![Len(atts)].result = r.exc]
    /\ messages' = msgs \o TrackMessages(r, i)
    /\ successful_extractions' = CountAfter(r, successful_extractions)
    /\ pc' = PcAfter(r)
    /\ i' = IF pc' = "loop" THEN i + 1 ELSE i

\* range(num_audio_tracks - 1).
LoopContinues_short(k, n) == k < n - 1

\* The loop test of line 83.
LoopContinues(k, n) == k < n

\* Lines 83-102: the next index is taken and ffmpeg is started, or cannot be.
TranscodeSpawn ==
    /\ pc = "loop"
    /\ LoopContinues(i, num_audio_tracks)
    /\ LET msgs == Append(messages, <<"extracting", i>>)
           atts == Append(attempts, Attempt(i, "running"))
       IN  \/ \E r \in NoSpawnOutcomes :
                /\ Handle(r, msgs, atts)
                /\ UNCHANGED outstanding
           \/ /\ outstanding' = outstanding \cup {<<"ffmpeg", i>>}
              /\ attempts' = atts
              /\ messages' = msgs
              /\ pc' = "transcode_wait"
              /\ UNCHANGED <<successful_extractions, i>>
    /\ UNCHANGED <<mp4_filepath, isfile, output_dir, fs_outdir, num_audio_tracks,
                   base_filename, probe_calls, probe_result, makedirs_calls>>

\* Lines 102-118: ffmpeg has exited.
TranscodeReturn ==
    /\ pc = "transcode_wait"
    /\ \E r \in TranscodeReturns : Handle(r, messages, attempts)
    /\ outstanding' = Reaped(outstanding, <<"ffmpeg", i>>)
    /\ UNCHANGED <<mp4_filepath, isfile, output_dir, fs_outdir, num_audio_tracks,
                   base_filename, probe_calls, probe_result, makedirs_calls>>

\* Line 124 written with >= for >.
Summary_geq(s, n) ==
    IF s = n /\ n > 0 THEN << <<"summary_all", s>>, <<"output_dir">> >>
    ELSE IF s >= 0 THEN << <<"summary_partial", s>>, <<"output_dir">> >>
    ELSE IF n > 0 THEN << <<"summary_none">> >>
    ELSE <<>>

\* Lines 121-128: the summary for s successes out of n tracks.
Summary(s, n) ==
    IF s = n /\ n > 0 THEN << <<"summary_all", s>>, <<"output_dir">> >>
    ELSE IF s > 0 THEN << <<"summary_partial", s>>, <<"output_dir">> >>
    ELSE IF n > 0 THEN << <<"summary_none">> >>
    ELSE <<>>

\* Lines 121-129, once the loop is exhausted.
Summarise ==
    /\ pc = "loop"
    /\ ~LoopContinues(i, num_audio_tracks)
    /\ messages' = messages \o Summary(successful_extractions, num_audio_tracks)
    /\ pc' = "end_129"
    /\ UNCHANGED <<mp4_filepath, isfile, output_dir, fs_outdir, num_audio_tracks,
                   base_filename, i, successful_extractions, attempts, outstanding,
                   probe_calls, probe_result, makedirs_calls>>

Next ==
    \/ CheckInput
    \/ ProbeSpawn
    \/ ProbeReturn
    \/ CheckCount
    \/ ResolveDir
    \/ TranscodeSpawn
    \/ TranscodeReturn
    \/ Summarise

Spec == Init /\ [][Next]_vars

\* The program is one thread and every external call returns: a step that
\* can be taken is taken.
FairSpec == Spec /\ WF_vars(Next)
----------------------------------------------------------------------------
(* Vocabulary of the properties *)

\* The positions at which extract_audio_tracks has returned.
Terminal == {"return_54", "return_63", "return_79", "return_107", "end_129"}

Ended == pc \in Terminal

\* The base name of each input, extension stripped, written out by hand.
ExpectedBase ==
    CASE mp4_filepath = <<"m", ".", "m", "p", "4">> -> <<"m">>
      [] mp4_filepath = <<"d", "/", "a", ".", "b", ".", "m">> -> <<"a", ".", "b">>
      [] mp4_filepath = <<"/", "v", ".", "x", "/", ".", "h">> -> <<".", "h">>

Decimals == <<"0", "1", "2", "3", "4", "5", "6", "7", "8", "9">>

\* <input-base-name>_track_<k>.wav, for k < 10.
ExpectedName(k) ==
    ExpectedBase \o <<"_", "t", "r", "a", "c", "k", "_">> \o <<Decimals[k + 1]>>
                 \o <<".", "w", "a", "v">>

\* The k-th invocation is for index k-1 and writes the file of that name
\* in some directory.
NamedAt(k) ==
    LET a == attempts[k]
        nm == ExpectedName(k - 1)
        n == Len(a.path)
    IN  /\ a.index = k - 1
        /\ a.map = <<"0", ":", "a", ":", Decimals[k]>>
        /\ n > Len(nm)
        /\ SubSeq(a.path, n - Len(nm) + 1, n) = nm
        /\ a.path[n - Len(nm)] = "/"

DistinctPaths ==
    \A j, k \in 1..Len(attempts) : j # k => attempts[j].path # attempts[k].path

\* Exactly n invocations, for the indices 0..n-1 in ascending order.
AttemptsExactly(n) ==
    /\ Len(attempts) = n
    /\ \A k \in 1..Len(attempts) : NamedAt(k)
    /\ DistinctPaths

MakedirsFailed == \E k \in 1..Len(makedirs_calls) : ~makedirs_calls[k]

BinaryMissing ==
    \E k \in 1..Len(attempts) : attempts[k].result = "FileNotFoundError"

\* The results of a transcode that failed, the binary having been found.
TrackFailures == {"CalledProcessError", "Exception"}

Printed(kind) == \E k \in 1..Len(messages) : messages[k][1] = kind

----------------------------------------------------------------------------
(* C1 *)

\* C1, as claimed: every run on an existing input whose probe reports N > 0
\* streams ends with exactly N transcode invocations, for the indices 0..N-1
\* in ascending order, each writing <base>_track_<index>.wav.  Refuted: a
\* failed os.makedirs ends the run with none, a missing ffmpeg with one.
C1_EveryRunAttemptsAll ==
    (Ended /\ isfile /\ num_audio_tracks > 0) => AttemptsExactly(num_audio_tracks)

\* C1, amended: at every point of a run the invocations made are those of
\* the indices 0..k-1, k <= N, in ascending order, each once and each
\* writing <base>_track_<index>.wav, all names distinct; and a run on an
\* existing input whose probe reports N > 0 streams, in which the creation
\* of the output directory does not fail and no invocation finds the
\* transcoding binary missing, ends with exactly N of them.
C1_AttemptsAllUnlessAborted ==
    /\ \A k \in 1..Len(attempts) : NamedAt(k)
    /\ DistinctPaths
    /\ Len(attempts) > 0 => Len(attempts) <= num_audio_tracks
    /\ (Ended /\ isfile /\ num_audio_tracks > 0 /\ ~MakedirsFailed /\ ~BinaryMissing)
          => AttemptsExactly(num_audio_tracks)

\* A run of three tracks that went through the whole loop, one track failing.
C1_Witness ==
    /\ pc = "end_129"
    /\ num_audio_tracks >= 3
    /\ Len(attempts) = num_audio_tracks
    /\ \E k \in 1..Len(attempts) : attempts[k].result = "CalledProcessError"

----------------------------------------------------------------------------
(* C2 *)

\* A failed transcode of an index below N-1 has just been handled.
FailureHandled ==
    /\ attempts' # attempts
    /\ attempts'[Len(attempts')].result \in TrackFailures
    /\ attempts'[Len(attempts')].index < num_audio_tracks - 1

\* C2: when the transcode of an index i < N-1 fails with a non-zero exit or
\* an unexpected error, the success counter is left as it was and the loop
\* goes on to index i+1; and once the run has ended every such failed index
\* is followed by the invocation for the next index.
C2_FailureIsolation ==
    /\ [][FailureHandled =>
            /\ successful_extractions' = successful_extractions
            /\ pc' = "loop"
            /\ i' = attempts'[Len(attempts')].index + 1
            /\ i' < num_audio_tracks]_vars
    /\ [](Ended =>
            \A k \in 1..Len(attempts) :
                (attempts[k].result \in TrackFailures
                    /\ attempts[k].index < num_audio_tracks - 1)
                => /\ k < Len(attempts)
                   /\ attempts[k + 1].index = attempts[k].index + 1)

\* Track 0 failed with a non-zero exit, track 1 with an unexpected error, and
\* track 2 was attempted all the same.
C2_Witness ==
    /\ Len(attempts) >= 3
    /\ attempts[1].result = "CalledProcessError"
    /\ attempts[2].result = "Exception"
    /\ attempts[3].index = 2
    /\ successful_extractions = 0

----------------------------------------------------------------------------
(* C3 *)

\* C3: an invocation that found the transcoding binary missing is the last
\* of the run: the run has returned, and the report of the missing binary is
\* the last thing it printed.
C3_MissingBinaryHalts ==
    \A k \in 1..Len(attempts) :
        attempts[k].result = "FileNotFoundError"
        => /\ k = Len(attempts)
           /\ pc = "return_107"
           /\ messages[Len(messages)] = <<"ffmpeg_not_found">>
           /\ ~Printed("summary_all") /\ ~Printed("summary_partial")
           /\ ~Printed("summary_none")

\* The binary went missing at index 1 of three tracks.
C3_Witness ==
    /\ num_audio_tracks = 3
    /\ Len(attempts) = 2
    /\ attempts[2].result = "FileNotFoundError"
    /\ pc = "return_107"

----------------------------------------------------------------------------
(* C4 *)

\* C4: when the input is no existing regular file the run prints one error
\* and returns: no probe, no transcode, no os.makedirs, nothing created,
\* whether or not an output directory was given.
C4_MissingInput ==
    ~isfile =>
        /\ probe_calls = 0
        /\ attempts = <<>>
        /\ outstanding = {}
        /\ makedirs_calls = <<>>
        /\ pc \in {"start", "return_54"}
        /\ pc = "start" => messages = <<>>
        /\ pc = "return_54" => messages = << <<"input_not_found">> >>

\* The input is missing, an output directory was given and does not exist.
C4_Witness ==
    /\ ~isfile
    /\ pc = "return_54"
    /\ output_dir # None
    /\ fs_outdir = "absent"

----------------------------------------------------------------------------
(* C5 *)

C5_FailureReached ==
    MakedirsFailed /\ pc = "return_79"
----------------------------------------------------------------------------
(* C6 *)

\* The probe ended in one of the error kinds: binary missing, non-zero
\* exit, any other error of the call, or output that is not a JSON object
\* with a list (or nothing) under "streams".
ProbeErrored ==
    \/ probe_result.exc \in {"FileNotFoundError", "CalledProcessError", "Exception"}
    \/ /\ probe_result.exc = "none"
       /\ probe_result.stdout[1] \in {"invalid", "array", "null"}

\* The probe reported no audio stream.
ProbeZero ==
    /\ probe_result.exc = "none"
    /\ probe_result.stdout \in {<<"nostreams", 0>>, <<"streams", 0>>}

SummaryKinds == {"summary_all", "summary_partial", "summary_none"}

IsSummary(m) == m[1] \in SummaryKinds

Summaries == SelectSeq(messages, IsSummary)

\* C6: every error kind of the probe gives the one sentinel, and a run whose
\* probe gave the sentinel or zero stops there: no transcode, no
\* os.makedirs, no announcement of tracks and no summary; only the zero case
\* prints the no-tracks message.
C6_NothingToExtractStops ==
    /\ ProbeErrored => num_audio_tracks = Failure
    /\ ProbeZero => num_audio_tracks = 0
    /\ (ProbeErrored \/ ProbeZero) =>
          /\ pc \in {"probed", "return_63"}
          /\ attempts = <<>>
          /\ makedirs_calls = <<>>
          /\ outstanding = {}
          /\ Summaries = <<>>
          /\ ~Printed("tracks_found")
          /\ ~Printed("dir_created")
          /\ Printed("no_tracks") <=> (pc = "return_63" /\ ProbeZero)

\* The probe's output could not be parsed, the output directory was given
\* and does not exist, and the run has returned.
C6_Witness ==
    /\ pc = "return_63"
    /\ probe_result.exc = "none"
    /\ probe_result.stdout[1] = "invalid"
    /\ output_dir # None
    /\ fs_outdir = "absent"

----------------------------------------------------------------------------
(* C7 *)

\* The number of invocations that exited with status zero.
Successes ==
    Cardinality({k \in 1..Len(attempts) : attempts[k].result = "none"})

\* C7: a run whose loop went through all N > 0 tracks with S successes has
\* printed exactly one summary: "all" iff S = N, "partial" iff 0 < S < N,
\* "none" iff S = 0, the first two showing S; no other run prints a summary.
C7_SummaryBySuccesses ==
    /\ pc # "end_129" => Summaries = <<>>
    /\ pc = "end_129" =>
          /\ num_audio_tracks > 0
          /\ Len(attempts) = num_audio_tracks
          /\ Len(Summaries) = 1
          /\ Summaries[1][1] = "summary_all" <=> Successes = num_audio_tracks
          /\ Summaries[1][1] = "summary_partial"
                <=> (0 < Successes /\ Successes < num_audio_tracks)
          /\ Summaries[1][1] = "summary_none" <=> Successes = 0
          /\ Summaries[1][1] # "summary_none" => Summaries[1][2] = Successes

\* Two tracks, the second exits non-zero: partial, one of two.
C7_Witness ==
    /\ pc = "end_129"
    /\ num_audio_tracks = 2
    /\ attempts[1].result = "none"
    /\ attempts[2].result = "CalledProcessError"
    /\ Summaries = << <<"summary_partial", 1>> >>

----------------------------------------------------------------------------
(* C8 *)

\* The state of the run's state machine at each position of the code.
\* "Rejected" (the input is missing) and "Aborted" (line 79 or line 107) are
\* the returns that the machine Start, Inspecting, Failed, NoTracks,
\* Extracting, Done has no state for.
Phase ==
    CASE pc = "start" -> "Start"
      [] pc = "return_54" -> "Rejected"
      [] pc \in {"probe", "probe_wait", "probed"} -> "Inspecting"
      [] pc = "return_63" -> IF num_audio_tracks = 0 THEN "NoTracks" ELSE "Failed"
      [] pc \in {"resolve_dir", "loop", "transcode_wait"} -> "Extracting"
      [] pc \in {"return_79", "return_107"} -> "Aborted"
      [] pc = "end_129" -> "Done"

Outcome ==
    IF Printed("summary_all") THEN "all"
    ELSE IF Printed("summary_partial") THEN "partial"
    ELSE IF Printed("summary_none") THEN "none"
    ELSE "no summary"

\* C8, as claimed: a run that entered Extracting ends in Done with one of
\* the outcomes all, partial, none.  Refuted: the returns of lines 79 and 107
\* end it with no summary.
C8_ExtractingEndsDone ==
    (Ended /\ Printed("tracks_found"))
        => (Phase = "Done" /\ Outcome \in {"all", "partial", "none"})

PhaseEdges ==
    { <<"Start", "Inspecting">>, <<"Start", "Rejected">>,
      <<"Inspecting", "Failed">>, <<"Inspecting", "NoTracks">>,
      <<"Inspecting", "Extracting">>,
      <<"Extracting", "Done">>, <<"Extracting", "Aborted">> }

\* C8, amended: a run goes from Start to Inspecting, or returns at once when
\* the input is missing; from Inspecting to Failed (sentinel), NoTracks
\* (zero) or Extracting (a positive count); from Extracting to Done with one
\* of the outcomes all, partial, none, or it returns with no summary when the
\* creation of the output directory fails or the transcoding binary is
\* missing.  No state is re-entered, and every run ends, each external call
\* returning.
C8_LinearAndTerminates ==
    /\ [][Phase' # Phase => <<Phase, Phase'>> \in PhaseEdges]_vars
    /\ [](Phase = "Rejected" => ~isfile)
    /\ [](Phase = "Failed" => num_audio_tracks = Failure)
    /\ [](Phase = "Extracting" => num_audio_tracks > 0)
    /\ [](Phase = "Done" => Outcome \in {"all", "partial", "none"})
    /\ [](Phase = "Aborted" => (Outcome = "no summary"
                                   /\ (MakedirsFailed \/ BinaryMissing)))
    /\ [](Phase = "Extracting" => <>(Phase \in {"Done", "Aborted"}))
    /\ <>Ended

\* A run that entered Extracting and reached Done with a partial outcome.
C8_Witness ==
    /\ Phase = "Done"
    /\ Outcome = "partial"
    /\ Printed("tracks_found")

----------------------------------------------------------------------------
(* C9 *)

LastRunning ==
    attempts # <<>> /\ attempts[Len(attempts)].result = "running"

\* C9: a run that passed the input check invokes the probe exactly once;
\* the probe has been waited for before any transcode is invoked; every
\* transcode but the last invoked has been waited for; and never is more
\* than one external process outstanding.
C9_OneProcessAtATime ==
    /\ probe_calls <= 1
    /\ pc \notin {"start", "return_54", "probe"} => probe_calls = 1
    /\ (Ended /\ isfile) => probe_calls = 1
    /\ Cardinality(outstanding) <= 1
    /\ <<"ffprobe", 0>> \in outstanding <=> pc = "probe_wait"
    /\ attempts # <<>> =>
          /\ probe_calls = 1
          /\ probe_result # NotRun
          /\ <<"ffprobe", 0>> \notin outstanding
    /\ \A k \in 1..(Len(attempts) - 1) : attempts[k].result # "running"
    /\ IF LastRunning
       THEN outstanding = {<<"ffmpeg", attempts[Len(attempts)].index>>}
       ELSE outstanding \subseteq {<<"ffprobe", 0>>}
    /\ Ended => outstanding = {}

\* The second transcode is running, alone.
C9_Witness ==
    /\ pc = "transcode_wait"
    /\ Len(attempts) = 2
    /\ attempts[1].result = "none"
    /\ outstanding = {<<"ffmpeg", 1>>}

----------------------------------------------------------------------------
(* C10 *)

\* The invocations that have ended.
Completed ==
    Cardinality({k \in 1..Len(attempts) : attempts[k].result # "running"})

\* A transcode has just exited with status zero.
JustSucceeded ==
    /\ attempts' # attempts
    /\ attempts'[Len(attempts')].result = "none"

====
